---------------------------- MODULE Spec2Model ----------------------------
(***************************************************************************)
(* The Book resource API of book/urls.py and book/views/generic_apiview.py *)
(* as a state machine over the Book table.  A request is resolved against  *)
(* urlpatterns, dispatched to the generic view class the route names, and  *)
(* the view's handler reads or writes the table.                           *)
(*                                                                         *)
(* Spec     : requests handled one at a time (each handler is one step).   *)
(* SpecConc : requests of several clients in flight at once; an Update or  *)
(*            a Delete is a read of the row followed by a write.           *)
(***************************************************************************)
EXTENDS Integers, Sequences, FiniteSets, TLC

VARIABLES
    db,         \* the Book table: [objects: id -> row, seq: next auto id]
    request,    \* the request handled last (Spec)
    response,   \* its response
    before,     \* the table as it was before that request
    inflight,   \* SpecConc: client -> the request it is handling, its position
    lastWrite   \* SpecConc: id -> the client whose write reached the table last

vars == <<db, request, response, before, inflight, lastWrite>>

----------------------------------------------------------------------------
(* Bounds of the model *)

\* ids the table may hand out: Create is not taken once seq exceeds MaxId
MaxId == 2

----------------------------------------------------------------------------
(* Request and field values *)

Absent == "<absent>"

Titles == {"Dune", "Emma"}
Authors == {"Frank Herbert"}
\* published_year as it arrives in the request, and the integer it denotes
YearText == {"1965"}
NotAnInteger == "nineteen"

NoToken == "<none>"
UnknownToken == "tok-unknown"

\* setUp: the user 'tester' and the token bound to it
Tokens == {"tok-tester"}

Ids == 1..MaxId

Methods == {"GET", "POST", "PUT", "PATCH", "DELETE"}

\* a request body: each field is a value or Absent
\* an id as a client may put it in a request body
IdText == {"1", "2"}

\* the id an id text denotes
IdField == ("1" :> 1) @@ ("2" :> 2)

DataSet ==
    [id : {Absent} \cup IdText,
     title : Titles \cup {Absent},
     author : Authors \cup {Absent},
     published_year : YearText \cup {Absent, NotAnInteger}]

NoData == [id |-> Absent, title |-> Absent, author |-> Absent, published_year |-> Absent]

Fields == {"title", "author", "published_year"}

----------------------------------------------------------------------------
(* The Book table *)

\* Book: id (auto-increment primary key), title, author, published_year
Book(id, title, author, year) ==
    [id |-> id, title |-> title, author |-> author, published_year |-> year]

EmptyTable == [objects |-> [i \in {} |-> Book(0, "", "", 0)], seq |-> 1]

\* Book.objects.filter(pk=pk).exists()
Exists(table, pk) == pk \in DOMAIN table.objects

\* INSERT: the table assigns the next id of its sequence
Insert(table, title, author, year) ==
    [objects |-> (table.seq :> Book(table.seq, title, author, year)) @@ table.objects,
     seq |-> table.seq + 1]

\* Model.save() of a loaded instance: UPDATE of all columns WHERE id = pk,
\* and an INSERT of the row when the UPDATE matched none
Save(table, row) ==
    [objects |-> (row.id :> row) @@ table.objects, seq |-> table.seq]

\* Model.delete(): DELETE WHERE id = pk
Delete(table, pk) ==
    [objects |-> [i \in DOMAIN table.objects \ {pk} |-> table.objects[i]],
     seq |-> table.seq]

RECURSIVE Ascending(_, _)
\* the rows of ids, by ascending primary key
Ascending(table, ids) ==
    IF ids = {} THEN <<>>
    ELSE LET m == CHOOSE i \in ids : \A j \in ids : i <= j
         IN <<table.objects[m]>> \o Ascending(table, ids \ {m})

\* queryset = Book.objects.all()
queryset(table) == Ascending(table, DOMAIN table.objects)


----------------------------------------------------------------------------
(* BookSerializer: the fields id (read only), title, author, published_year *)

\* IntegerField.to_internal_value: the integer the text denotes
IntegerField == ("1965" :> 1965)

\* one field of the input is acceptable
field_valid(f, v) ==
    IF f = "published_year" THEN v \in DOMAIN IntegerField ELSE TRUE

\* serializer.is_valid(): every supplied field is acceptable, and unless the
\* serializer is partial every required field is supplied
is_valid(data, partial) ==
    \A f \in Fields :
        IF data[f] = Absent THEN partial ELSE field_valid(f, data[f])

\* the value a validated field takes
to_internal_value(f, v) ==
    IF f = "published_year" THEN IntegerField[v] ELSE v

\* serializer.save() on create: validated_data without the read-only id
validated_create(data) ==
    [f \in Fields |-> to_internal_value(f, data[f])]

\* serializer.update(instance, validated_data): the supplied fields are set
\* on the instance, the others and the id keep the instance's values
validated_update(instance, data) ==
    [f \in {"id"} \cup Fields |->
        IF f = "id" \/ data[f] = Absent THEN instance[f]
        ELSE to_internal_value(f, data[f])]

----------------------------------------------------------------------------
(* Responses *)

Response(status, kind, body, table) ==
    [status |-> status, kind |-> kind, body |-> body, table |-> table]

NotAuthenticated(table) == Response(401, "error", <<>>, table)
Http404(table) == Response(404, "error", <<>>, table)
ValidationError(table) == Response(400, "error", <<>>, table)
MethodNotAllowed(table) == Response(405, "error", <<>>, table)

\* TokenAuthentication + IsAuthenticated: the Authorization header carries a
\* token bound to a user
IsAuthenticated(req) == req.token \in Tokens

----------------------------------------------------------------------------
(* The handlers the generic view classes mix in *)

\* list, were the queryset ordered by descending id
list_newest_first(req, table) ==
    Response(200, "list",
             [k \in 1..Len(queryset(table)) |->
                 queryset(table)[Len(queryset(table)) + 1 - k]],
             table)

\* ListModelMixin.list
list(req, table) == Response(200, "list", queryset(table), table)

\* create, were the id of the input written to the new row
create_with_input_id(req, table) ==
    IF ~is_valid(req.data, FALSE) THEN ValidationError(table)
    ELSE LET v == validated_create(req.data)
             t == Insert(table, v.title, v.author, v.published_year)
             b == Book(IdField[req.data.id], v.title, v.author, v.published_year)
         IN IF req.data.id = Absent
            THEN Response(201, "book", <<t.objects[table.seq]>>, t)
            ELSE Response(201, "book", <<b>>, Save(table, b))

\* CreateModelMixin.create
create(req, table) ==
    IF ~is_valid(req.data, FALSE) THEN ValidationError(table)
    ELSE LET v == validated_create(req.data)
             t == Insert(table, v.title, v.author, v.published_year)
         IN Response(201, "book", <<t.objects[table.seq]>>, t)

\* retrieve, were the lookup to ignore pk and take the first row
retrieve_first_row(req, table) ==
    IF ~Exists(table, req.pk) THEN Http404(table)
    ELSE Response(200, "book", <<queryset(table)[1]>>, table)

\* RetrieveModelMixin.retrieve
retrieve(req, table) ==
    IF ~Exists(table, req.pk) THEN Http404(table)
    ELSE Response(200, "book", <<table.objects[req.pk]>>, table)

\* perform_update, were only the supplied columns written (save with
\* update_fields) instead of the whole loaded instance
perform_update_supplied_columns(table, instance, data) ==
    IF Exists(table, instance.id)
    THEN Save(table, validated_update(table.objects[instance.id], data))
    ELSE table

\* UpdateModelMixin.perform_update: serializer.save() sets the validated
\* fields on the instance get_object() loaded and saves that instance
perform_update(table, instance, data) ==
    Save(table, validated_update(instance, data))

\* update, were a PUT to a missing id to create the row (update_or_create)
update_or_create(req, table, partial) ==
    IF ~Exists(table, req.pk) /\ (partial \/ ~is_valid(req.data, FALSE))
    THEN Http404(table)
    ELSE IF ~is_valid(req.data, partial) THEN ValidationError(table)
    ELSE LET instance == IF Exists(table, req.pk) THEN table.objects[req.pk]
                         ELSE Book(req.pk, "", "", 0)
         IN Response(200, "book", <<validated_update(instance, req.data)>>,
                     perform_update(table, instance, req.data))

\* update, were the input validated before the instance is looked up
update_validate_first(req, table, partial) ==
    IF ~is_valid(req.data, partial) THEN ValidationError(table)
    ELSE IF ~Exists(table, req.pk) THEN Http404(table)
    ELSE LET instance == table.objects[req.pk]
         IN Response(200, "book", <<validated_update(instance, req.data)>>,
                     perform_update(table, instance, req.data))

\* UpdateModelMixin.update (PUT) and partial_update (PATCH)
update(req, table, partial) ==
    IF ~Exists(table, req.pk) THEN Http404(table)
    ELSE IF ~is_valid(req.data, partial) THEN ValidationError(table)
    ELSE LET instance == table.objects[req.pk]
         IN Response(200, "book", <<validated_update(instance, req.data)>>,
                     perform_update(table, instance, req.data))

\* perform_destroy, were the row kept
perform_destroy_keeps_row(table, instance) == table

\* DestroyModelMixin.perform_destroy: instance.delete()
perform_destroy(table, instance) == Delete(table, instance.id)

\* DestroyModelMixin.destroy
destroy(req, table) ==
    IF ~Exists(table, req.pk) THEN Http404(table)
    ELSE Response(204, "none", <<>>, perform_destroy(table, table.objects[req.pk]))

----------------------------------------------------------------------------
(* book/views/generic_apiview.py *)

\* 1. list (GET) + create (POST)
BookListCreateView(req, table) ==
    IF ~IsAuthenticated(req) THEN NotAuthenticated(table)
    ELSE CASE req.method = "GET" -> list(req, table)
           [] req.method = "POST" -> create(req, table)
           [] OTHER -> MethodNotAllowed(table)

\* 2. retrieve (GET)
BookRetrieveView(req, table) ==
    IF ~IsAuthenticated(req) THEN NotAuthenticated(table)
    ELSE CASE req.method = "GET" -> retrieve(req, table)
           [] OTHER -> MethodNotAllowed(table)

\* BookUpdateView, were PATCH handled like PUT (not partial)
BookUpdateView_patch_not_partial(req, table) ==
    IF ~IsAuthenticated(req) THEN NotAuthenticated(table)
    ELSE CASE req.method = "PUT" -> update(req, table, FALSE)
           [] req.method = "PATCH" -> update(req, table, FALSE)
           [] OTHER -> MethodNotAllowed(table)

\* 3. update (PUT/PATCH)
BookUpdateView(req, table) ==
    IF ~IsAuthenticated(req) THEN NotAuthenticated(table)
    ELSE CASE req.method = "PUT" -> update(req, table, FALSE)
           [] req.method = "PATCH" -> update(req, table, TRUE)
           [] OTHER -> MethodNotAllowed(table)

\* BookDestroyView, were it to let any request in (AllowAny)
BookDestroyView_allow_any(req, table) ==
    CASE req.method = "DELETE" -> destroy(req, table)
      [] OTHER -> MethodNotAllowed(table)

\* 4. delete (DELETE)
BookDestroyView(req, table) ==
    IF ~IsAuthenticated(req) THEN NotAuthenticated(table)
    ELSE CASE req.method = "DELETE" -> destroy(req, table)
           [] OTHER -> MethodNotAllowed(table)

\* 5. retrieve + update + delete
BookRetrieveUpdateDestroyView(req, table) ==
    IF ~IsAuthenticated(req) THEN NotAuthenticated(table)
    ELSE CASE req.method = "GET" -> retrieve(req, table)
           [] req.method = "PUT" -> update(req, table, FALSE)
           [] req.method = "PATCH" -> update(req, table, TRUE)
           [] req.method = "DELETE" -> destroy(req, table)
           [] OTHER -> MethodNotAllowed(table)

----------------------------------------------------------------------------
(* book/urls.py *)

ListRoute == "generic/books/"
RetrieveRoute == "generic/books/<int:pk>/"
UpdateRoute == "generic/books/<int:pk>/update/"
DeleteRoute == "generic/books/<int:pk>/delete/"
DetailRoute == "generic/books/<int:pk>/detail/"
MinimalListRoute == "books/"
MinimalDetailRoute == "books/<int:pk>/"
RootRoute == ""

path(route, view, name) == [route |-> route, view |-> view, name |-> name]

\* urls.py 6-13: the list built first ...
urlpatterns_first ==
    << path(RootRoute, "user_permission.BookListCreateView", "book-list-create"),
       path(MinimalListRoute, "book_list", "book-list"),
       path(MinimalDetailRoute, "book_detail", "book-detail") >>

\* ... urls.py 25-31: and the list assigned over it (urlpatterns = [...]),
\* which is the one the resolver sees
urlpatterns ==
    << path(ListRoute, "BookListCreateView", "book-list-create"),
       path(RetrieveRoute, "BookRetrieveView", "book-retrieve"),
       path(UpdateRoute, "BookUpdateView", "book-update"),
       path(DeleteRoute, "BookDestroyView", "book-delete"),
       path(DetailRoute, "BookRetrieveUpdateDestroyView", "book-detail") >>

GenericRoutes == {ListRoute, RetrieveRoute, UpdateRoute, DeleteRoute, DetailRoute}
MinimalRoutes == {MinimalListRoute, MinimalDetailRoute}
Routes == GenericRoutes \cup MinimalRoutes \cup {RootRoute}

\* the first pattern of urlpatterns the route matches, 0 when none does
resolve(route) ==
    LET hits == {i \in 1..Len(urlpatterns) : urlpatterns[i].route = route}
    IN IF hits = {} THEN 0 ELSE CHOOSE i \in hits : \A j \in hits : i <= j

\* View.as_view() of the class the pattern names
as_view(view, req, table) ==
    CASE view = "BookListCreateView" -> BookListCreateView(req, table)
      [] view = "BookRetrieveView" -> BookRetrieveView(req, table)
      [] view = "BookUpdateView" -> BookUpdateView(req, table)
      [] view = "BookDestroyView" -> BookDestroyView(req, table)
      [] view = "BookRetrieveUpdateDestroyView" ->
             BookRetrieveUpdateDestroyView(req, table)

\* a request against the table: its response and the table after it
Respond(req, table) ==
    LET m == resolve(req.route)
    IN IF m = 0 THEN Http404(table)
       ELSE as_view(urlpatterns[m].view, req, table)

\* the methods the view at a route serves
Serves(route) ==
    CASE route = ListRoute -> {"GET", "POST"}
      [] route = RetrieveRoute -> {"GET"}
      [] route = UpdateRoute -> {"PUT", "PATCH"}
      [] route = DeleteRoute -> {"DELETE"}
      [] route = DetailRoute -> {"GET", "PUT", "PATCH", "DELETE"}
      [] OTHER -> {}

----------------------------------------------------------------------------
(* Requests handled one at a time *)

Request(method, route, pk, token, data) ==
    [method |-> method, route |-> route, pk |-> pk, token |-> token, data |-> data]

NoRequest == Request("", "", 0, NoToken, NoData)
NoResponse == [status |-> 0, kind |-> "none", body |-> <<>>]

\* request bodies without an id field
PlainData == {d \in DataSet : d.id = Absent}

\* pk of a request to a route: 0 where the route has none
Pks(route) == IF route = ListRoute THEN {0} ELSE Ids

Handle(req) ==
    LET r == Respond(req, db)
    IN /\ request' = req
       /\ response' = [status |-> r.status, kind |-> r.kind, body |-> r.body]
       /\ before' = db
       /\ db' = r.table

ListBooks ==
    /\ UNCHANGED <<inflight, lastWrite>>
    /\ \E token \in Tokens :
        Handle(Request("GET", ListRoute, 0, token, NoData))

CreateBook ==
    /\ db.seq <= MaxId
    /\ UNCHANGED <<inflight, lastWrite>>
    /\ \E token \in Tokens, data \in DataSet :
        Handle(Request("POST", ListRoute, 0, token, data))

RetrieveBook ==
    /\ UNCHANGED <<inflight, lastWrite>>
    /\ \E token \in Tokens, route \in {RetrieveRoute, DetailRoute}, pk \in Ids :
        Handle(Request("GET", route, pk, token, NoData))

UpdateBook ==
    /\ UNCHANGED <<inflight, lastWrite>>
    /\ \E token \in Tokens, route \in {UpdateRoute, DetailRoute},
       method \in {"PUT", "PATCH"}, pk \in Ids, data \in PlainData :
        Handle(Request(method, route, pk, token, data))

DestroyBook ==
    /\ UNCHANGED <<inflight, lastWrite>>
    /\ \E token \in Tokens, route \in {DeleteRoute, DetailRoute}, pk \in Ids :
        Handle(Request("DELETE", route, pk, token, NoData))

FullData ==
    [id |-> Absent, title |-> "Emma", author |-> "Frank Herbert",
     published_year |-> "1965"]

\* the body a request of the method carries when the model does not vary it
BodyOf(method) == IF method \in {"POST", "PUT", "PATCH"} THEN FullData ELSE NoData

\* a request with no token, or with a token bound to no user
Unauthenticated ==
    /\ UNCHANGED <<inflight, lastWrite>>
    /\ \E token \in {NoToken, UnknownToken}, route \in GenericRoutes :
      \E method \in Serves(route), pk \in Pks(route) :
        Handle(Request(method, route, pk, token, BodyOf(method)))

\* a method the view at the route does not serve
UnservedMethod ==
    /\ UNCHANGED <<inflight, lastWrite>>
    /\ \E token \in Tokens, route \in GenericRoutes :
      \E method \in Methods \ Serves(route), pk \in Pks(route) :
        Handle(Request(method, route, pk, token, BodyOf(method)))

\* a path no pattern of urlpatterns matches
UnroutedPath ==
    /\ UNCHANGED <<inflight, lastWrite>>
    /\ \E token \in Tokens, route \in MinimalRoutes \cup {RootRoute} :
      \E method \in {"GET", "POST"},
         pk \in (IF route = MinimalDetailRoute THEN Ids ELSE {0}) :
        Handle(Request(method, route, pk, token, BodyOf(method)))

NoFlight == [c \in {} |-> 0]

Init ==
    /\ db = EmptyTable
    /\ request = NoRequest
    /\ response = NoResponse
    /\ before = EmptyTable
    /\ inflight = NoFlight
    /\ lastWrite = NoFlight

Next ==
    \/ ListBooks
    \/ CreateBook
    \/ RetrieveBook
    \/ UpdateBook
    \/ DestroyBook
    \/ Unauthenticated
    \/ UnservedMethod
    \/ UnroutedPath

Spec == Init /\ [][Next]_vars

----------------------------------------------------------------------------
(* Requests in flight at once.  The views take no lock and open no         *)
(* transaction: an Update or a Delete reads the row (get_object) in one    *)
(* step and writes it (perform_update, perform_destroy) in a later one.    *)

Clients == {"c1", "c2"}

Idle == [pc |-> "idle", req |-> NoRequest, instance |-> <<>>,
         status |-> 0, body |-> <<>>]

\* request bodies of the clients: every supplied field valid, no id
WriteData == {d \in PlainData : is_valid(d, TRUE)}

\* the tables the clients start from: every id of Ids names a Book
FullTables ==
    {[objects |-> [i \in Ids |-> Book(i, t[i], "Frank Herbert", 1965)],
      seq |-> MaxId + 1] : t \in [Ids -> Titles]}

\* the view of a routed request is PUT or PATCH of an update view
partial_of(req) == req.method = "PATCH"

\* dispatch up to the write: authentication, get_object(), is_valid()
LoadRow(c) ==
    /\ inflight[c].pc = "idle"
    /\ UNCHANGED <<db, request, response, before, lastWrite>>
    /\ \E token \in Tokens, pk \in Ids :
         \E req \in
            {Request(m, route, pk, token, d) :
                m \in {"PUT", "PATCH"}, route \in {UpdateRoute, DetailRoute},
                d \in WriteData}
            \cup {Request("DELETE", route, pk, token, NoData) :
                    route \in {DeleteRoute, DetailRoute}} :
            inflight' = [inflight EXCEPT ![c] =
                IF ~Exists(db, pk)
                THEN [pc |-> "done", req |-> req, instance |-> <<>>,
                      status |-> 404, body |-> <<>>]
                ELSE IF req.method # "DELETE" /\ ~is_valid(req.data, partial_of(req))
                THEN [pc |-> "done", req |-> req, instance |-> <<>>,
                      status |-> 400, body |-> <<>>]
                ELSE [pc |-> "loaded", req |-> req, instance |-> <<db.objects[pk]>>,
                      status |-> 0, body |-> <<>>]]

\* the write of the loaded instance, and the response
WriteRow(c) ==
    /\ inflight[c].pc = "loaded"
    /\ UNCHANGED <<request, response, before>>
    /\ LET req == inflight[c].req
           instance == inflight[c].instance[1]
       IN /\ db' = IF req.method = "DELETE" THEN perform_destroy(db, instance)
                   ELSE perform_update(db, instance, req.data)
          /\ inflight' = [inflight EXCEPT ![c] =
                IF req.method = "DELETE"
                THEN [@ EXCEPT !.pc = "done", !.status = 204]
                ELSE [@ EXCEPT !.pc = "done", !.status = 200,
                               !.body = <<validated_update(instance, req.data)>>]]
          /\ lastWrite' = [lastWrite EXCEPT ![req.pk] = c]

InitConc ==
    /\ db \in FullTables
    /\ before = db
    /\ request = NoRequest
    /\ response = NoResponse
    /\ inflight = [c \in Clients |-> Idle]
    /\ lastWrite = [i \in Ids |-> "none"]

NextConc == \E c \in Clients : LoadRow(c) \/ WriteRow(c)

SpecConc == InitConc /\ [][NextConc]_vars

----------------------------------------------------------------------------
(* Properties of Spec.  Each speaks of the request handled last: request,  *)
(* its response, the table before it (before) and after it (db).           *)

Authenticated == request.token \in Tokens
Served == request.route \in GenericRoutes /\ request.method \in Serves(request.route)
IsCreate == request.method = "POST" /\ request.route = ListRoute
IsList == request.method = "GET" /\ request.route = ListRoute
IsRetrieve == request.method = "GET" /\ request.route \in {RetrieveRoute, DetailRoute}
IsUpdate ==
    request.method \in {"PUT", "PATCH"} /\ request.route \in {UpdateRoute, DetailRoute}
IsDelete == request.method = "DELETE" /\ request.route \in {DeleteRoute, DetailRoute}
Count(table) == Cardinality(DOMAIN table.objects)

\* C1: on every generic route and every method it serves, a request with no
\* token or a token bound to no user is answered 401 and the table after the
\* request is the table before it.
C1_Unauthenticated401 ==
    (Served /\ ~Authenticated) => (response.status = 401 /\ db = before)

\* C1 witness: a DELETE of an existing Book through the combined route, sent
\* with a token bound to no user, has been refused.
C1_Witness ==
    /\ request.method = "DELETE" /\ request.route = DetailRoute
    /\ request.token = UnknownToken
    /\ request.pk \in DOMAIN before.objects
    /\ response.status = 401

\* C2: a Create with all three fields valid and a valid token is answered 201
\* with a Book whose title, author and published_year are the input's, and a
\* Retrieve of the returned id handled next is answered 200 with that Book.
C2_CreateThenRetrieve ==
    /\ [](( /\ IsCreate /\ Authenticated
            /\ is_valid(request.data, FALSE) )
          => ( /\ response.status = 201
               /\ Len(response.body) = 1
               /\ response.body[1].title = request.data.title
               /\ response.body[1].author = request.data.author
               /\ response.body[1].published_year
                      = IntegerField[request.data.published_year] ))
    /\ [][ ( /\ IsCreate /\ response.status = 201
             /\ request'.method = "GET"
             /\ request'.route \in {RetrieveRoute, DetailRoute}
             /\ request'.token \in Tokens
             /\ request'.pk = response.body[1].id )
           => ( /\ response'.status = 200
                /\ response'.body = response.body ) ]_vars

\* C2 witness: a second Book has been created, from a body that also carried
\* an id.
C2_Witness ==
    /\ IsCreate /\ response.status = 201
    /\ Count(before) = 1
    /\ request.data.id # Absent

\* C3: with a valid token, Retrieve, Update (PUT or PATCH) and Delete of an id
\* no Book has are answered 404, on the dedicated routes and on the combined
\* route, and leave the table as it was.
C3_NoSuchId404 ==
    ( /\ Authenticated
      /\ IsRetrieve \/ IsUpdate \/ IsDelete
      /\ request.pk \notin DOMAIN before.objects )
    => (response.status = 404 /\ db = before)

\* C3 witness: a PUT through the combined route, with a body that would not
\* validate, to an id that was deleted earlier.
C3_Witness ==
    /\ request.method = "PUT" /\ request.route = DetailRoute
    /\ Authenticated
    /\ request.pk \notin DOMAIN before.objects
    /\ request.pk < before.seq
    /\ ~is_valid(request.data, FALSE)
    /\ response.status = 404

\* an id the table handed out and that names no Book any more
Deleted(table, id) == id < table.seq /\ id \notin DOMAIN table.objects

C5_ListSize ==
    Len(queryset(db)) - Len(queryset(before)) =
        IF IsCreate /\ response.status = 201 THEN 1
        ELSE IF IsDelete /\ response.status = 204 THEN 0 - 1
        ELSE 0

\* C5 witness: a Delete answered 204 took the list from two Books to one.
C5_Witness ==
    /\ IsDelete /\ response.status = 204
    /\ Len(queryset(before)) = 2
    /\ Len(queryset(db)) = 1

\* the Update the request describes has been applied to Book request.pk:
\* the supplied fields hold the supplied values, the fields not supplied and
\* the id hold what they held, the response is 200 with the Book as stored,
\* and every other Book and the id sequence are as they were
UpdateApplied ==
    /\ response.status = 200
    /\ request.pk \in DOMAIN db.objects
    /\ response.body = <<db.objects[request.pk]>>
    /\ db.objects[request.pk].id = request.pk
    /\ \A f \in Fields :
          db.objects[request.pk][f] =
              IF request.data[f] = Absent THEN before.objects[request.pk][f]
              ELSE IF f = "published_year" THEN IntegerField[request.data[f]]
              ELSE request.data[f]
    /\ DOMAIN db.objects = DOMAIN before.objects
    /\ \A i \in DOMAIN db.objects \ {request.pk} : db.objects[i] = before.objects[i]
    /\ db.seq = before.seq

\* an Update of an existing Book, with a valid token, in which every supplied
\* field has a valid value
UpdateOfExisting ==
    /\ Authenticated /\ IsUpdate
    /\ request.pk \in DOMAIN before.objects
    /\ \A f \in Fields : request.data[f] = Absent \/ field_valid(f, request.data[f])

AllSupplied == \A f \in Fields : request.data[f] # Absent

\* C6 as claimed: an Update of an existing id with any subset of the fields,
\* by PUT or by PATCH, is answered 200 with exactly the supplied fields
\* replaced.
C6_AnySubsetByPutOrPatch == UpdateOfExisting => UpdateApplied

\* C6 as amended: a PATCH with any subset of the fields, and a PUT with all
\* three, is answered 200 with exactly the supplied fields replaced; a PUT
\* that leaves a field out is answered 400 and changes nothing.
C6_PatchSubsetPutAll ==
    UpdateOfExisting =>
        IF request.method = "PATCH" \/ AllSupplied THEN UpdateApplied
        ELSE response.status = 400 /\ db = before

\* C6 witness: a PATCH of the title alone changed the title of one of two
\* Books.
C6_Witness ==
    /\ UpdateOfExisting /\ request.method = "PATCH"
    /\ request.data.title # Absent
    /\ request.data.author = Absent /\ request.data.published_year = Absent
    /\ Count(before) = 2
    /\ response.status = 200
    /\ db.objects[request.pk].title # before.objects[request.pk].title

\* C7: a Create with a valid token and a required field missing is answered
\* 400 and adds no Book; the id of a created Book is none that a Book of the
\* table had, and the response and the table after a Create are those of the
\* same Create without the id field.
C7_CreateValidation ==
    (IsCreate /\ Authenticated) =>
        /\ (\E f \in Fields : request.data[f] = Absent)
              => (response.status = 400 /\ db = before)
        /\ response.status = 201 =>
              /\ response.body[1].id \notin DOMAIN before.objects
              /\ response.body[1].id \in DOMAIN db.objects
        /\ LET r == Respond([request EXCEPT !.data.id = Absent], before)
           IN /\ r.status = response.status
              /\ r.body = response.body
              /\ r.table = db

\* C7 witness: a Create whose body named the id of an existing Book made a
\* Book with another id.
C7_Witness ==
    /\ IsCreate /\ response.status = 201
    /\ request.data.id # Absent
    /\ IdField[request.data.id] \in DOMAIN before.objects
    /\ response.body[1].id # IdField[request.data.id]

\* C8: List with a valid token is answered 200 with the Books of the table,
\* each once, in the order of their creation (ids are handed out in that
\* order).
C8_ListAll ==
    (IsList /\ Authenticated) =>
        /\ response.status = 200
        /\ db = before
        /\ Len(response.body) = Count(db)
        /\ \A i \in DOMAIN db.objects :
              \E k \in 1..Len(response.body) : response.body[k] = db.objects[i]
        /\ \A k \in 1..Len(response.body) :
              /\ response.body[k].id \in DOMAIN db.objects
              /\ \A l \in 1..Len(response.body) :
                    k < l => response.body[k].id < response.body[l].id

\* C8 witness: a List of two Books, the first of which was updated after the
\* second was created.
C8_Witness ==
    /\ IsList /\ response.status = 200
    /\ Len(response.body) = 2
    /\ response.body[1].title = "Emma"
    /\ response.body[2].title = "Dune"

\* the dedicated generic route a request of another route corresponds to
Counterpart(req) ==
    CASE req.route = MinimalListRoute -> ListRoute
      [] req.route = MinimalDetailRoute -> RetrieveRoute
      [] req.route = DetailRoute /\ req.method = "GET" -> RetrieveRoute
      [] req.route = DetailRoute /\ req.method \in {"PUT", "PATCH"} -> UpdateRoute
      [] req.route = DetailRoute /\ req.method = "DELETE" -> DeleteRoute
      [] OTHER -> req.route

\* the request's response and resulting table are those of the same request
\* sent to its dedicated generic route
AgreesWithCounterpart ==
    LET r == Respond([request EXCEPT !.route = Counterpart(request)], before)
    IN /\ r.status = response.status
       /\ r.body = response.body
       /\ r.table = db

\* C9: a request to the minimal pair (books/, books/{id}/) or to the combined
\* route is routed and gets the status, body and resulting table of the same
\* request at the corresponding dedicated generic route.
C9_OneSurface ==
    ( /\ request.route \in MinimalRoutes \cup {DetailRoute}
      /\ request.method \in Serves(Counterpart(request)) )
    => (resolve(request.route) # 0 /\ AgreesWithCounterpart)

\* the part of C9 about the combined route alone
DetailRouteAgrees ==
    (request.route = DetailRoute /\ request.method \in Serves(DetailRoute))
        => (resolve(request.route) # 0 /\ AgreesWithCounterpart)

----------------------------------------------------------------------------
(* Properties of SpecConc *)

\* the row of an id as a sequence: empty when no Book has the id
RowOf(table, id) == IF Exists(table, id) THEN <<table.objects[id]>> ELSE <<>>

\* the clients whose write of the id has reached the table
Writers(id) ==
    {c \in Clients : inflight[c].pc = "done" /\ inflight[c].req.pk = id
                     /\ inflight[c].status \in {200, 204}}

AllDone == \A c \in Clients : inflight[c].pc = "done"

\* C10: under any interleaving of the reads and writes of concurrent
\* requests: a Book only one request wrote ends as that request run alone
\* leaves it, and a Book no request wrote is unchanged; a Book several
\* requests wrote is as the write that reached the table last left it: it
\* is that request's response, and every field that request did not supply
\* holds the value that request read; and a request that has not finished
\* can always take its next step.
C10_LastWriteWins ==
    /\ \A id \in Ids :
          /\ Writers(id) = {} /\ lastWrite[id] = "none"
                => RowOf(db, id) = RowOf(before, id)
          /\ AllDone =>
                \A c \in Clients :
                    Writers(id) = {c} =>
                        RowOf(db, id) = RowOf(Respond(inflight[c].req, before).table, id)
          /\ lastWrite[id] # "none" =>
                LET w == inflight[lastWrite[id]]
                IN /\ RowOf(db, id) = w.body
                   /\ w.req.method # "DELETE" =>
                        \A f \in Fields :
                            db.objects[id][f] =
                                IF w.req.data[f] = Absent THEN w.instance[1][f]
                                ELSE IF f = "published_year"
                                     THEN IntegerField[w.req.data[f]]
                                ELSE w.req.data[f]
    /\ \A c \in Clients :
          /\ inflight[c].pc = "idle" => ENABLED LoadRow(c)
          /\ inflight[c].pc = "loaded" => ENABLED WriteRow(c)

\* Not a property of SpecConc: a Book whose Delete was answered 204 is gone.
\* An Update that loaded the row before the Delete and saves it afterwards
\* puts the row back (Save inserts when its UPDATE matches no row).
ConcDeleteIsFinal ==
    \A c \in Clients :
        (inflight[c].pc = "done" /\ inflight[c].status = 204)
            => ~Exists(db, inflight[c].req.pk)

\* C10 witness: two PATCHes of the same Book, one of the title and one of the
\* author, both read before either wrote; the title the first one wrote is
\* gone, overwritten by the value the second one had read.
C10_Witness ==
    /\ AllDone
    /\ inflight["c1"].req.pk = 1 /\ inflight["c2"].req.pk = 1
    /\ inflight["c1"].req.method = "PATCH" /\ inflight["c2"].req.method = "PATCH"
    /\ inflight["c1"].req.data.title # Absent
    /\ inflight["c1"].req.data.author = Absent
    /\ inflight["c2"].req.data.title = Absent
    /\ inflight["c2"].req.data.author # Absent
    /\ inflight["c1"].status = 200 /\ inflight["c2"].status = 200
    /\ lastWrite[1] = "c2"
    /\ inflight["c1"].body[1].title # before.objects[1].title
    /\ db.objects[1].title = before.objects[1].title

=============================================================================
